---- MODULE Spec2Model ----
(***************************************************************************)
(* Hyperstack cloud provider of the cluster autoscaler: the Manager's      *)
(* snapshot of node groups (Refresh) and the scale operations of the       *)
(* NodeGroup handles (IncreaseSize, DeleteNodes, ...).                     *)
(*                                                                         *)
(* Go strings that the code parses or formats (label values, ids) are      *)
(* sequences of one-character strings, so that strconv.Atoi and            *)
(* strconv.Itoa are computed digit by digit.                               *)
(*                                                                         *)
(* NodeGroup handles and the node-group records they point to live in two  *)
(* heaps (heap, recs); a handle's nodeGroup field is an address in recs.   *)
(***************************************************************************)
EXTENDS Integers, Sequences, FiniteSets, TLC

\* ------------------------------------------------------------------ bounds
\* largest minCount / maxCount the cloud reports; counts go one beyond it
MaxSize == 2
\* most node-group records in one ListNodeGroups response
MaxGroups == 2
\* most Kubernetes nodes handed to one DeleteNodes call
MaxNodes == 2
\* most handles of earlier snapshots the host still holds after a Refresh
MaxStale == 1
\* a local count is not driven below -MaxDeficit (caps the decrement)
MaxDeficit == 1

\* ------------------------------------------------------- strings, numbers
Digits == <<"0", "1", "2", "3", "4", "5", "6", "7", "8", "9">>

DigitVal(c) == (CHOOSE i \in 1..10 : Digits[i] = c) - 1

IsDigit(c) == \E i \in 1..10 : Digits[i] = c

RECURSIVE DigitsValue(_)
DigitsValue(s) ==
  IF s = <<>> THEN 0
  ELSE 10 * DigitsValue(SubSeq(s, 1, Len(s) - 1)) + DigitVal(s[Len(s)])

\* (variant) a string that is no number is read as 0
AtoiLenient(s) ==
  LET signed == s # <<>> /\ s[1] \in {"+", "-"}
      body   == IF signed THEN Tail(s) ELSE s
  IN  IF body = <<>> \/ \E i \in 1..Len(body) : ~IsDigit(body[i])
      THEN [ok |-> TRUE, val |-> 0]
      ELSE [ok |-> TRUE,
            val |-> IF signed /\ s[1] = "-" THEN 0 - DigitsValue(body)
                    ELSE DigitsValue(body)]

\* strconv.Atoi: an optional sign, then one or more decimal digits
Atoi(s) ==
  LET signed == s # <<>> /\ s[1] \in {"+", "-"}
      body   == IF signed THEN Tail(s) ELSE s
  IN  IF body = <<>> \/ \E i \in 1..Len(body) : ~IsDigit(body[i])
      THEN [ok |-> FALSE, val |-> 0]
      ELSE [ok |-> TRUE,
            val |-> IF signed /\ s[1] = "-" THEN 0 - DigitsValue(body)
                    ELSE DigitsValue(body)]

RECURSIVE NatDigits(_)
NatDigits(n) ==
  IF n < 10 THEN <<Digits[n + 1]>>
  ELSE Append(NatDigits(n \div 10), Digits[(n % 10) + 1])

\* strconv.Itoa
Itoa(n) == IF n < 0 THEN <<"-">> \o NatDigits(0 - n) ELSE NatDigits(n)

RECURSIVE SortedSeq(_)
\* the elements of a finite set of integers, ascending
SortedSeq(S) ==
  IF S = {} THEN <<>>
  ELSE LET m == CHOOSE x \in S : \A y \in S : x <= y
       IN  <<m>> \o SortedSeq(S \ {m})

PosOf(seq, x) == CHOOSE i \in 1..Len(seq) : seq[i] = x

Range(seq) == {seq[i] : i \in 1..Len(seq)}

\* ----------------------------------------------------------- label names
nodeIdLabel == "hyperstack.cloud/node-id"
nodeRoleLabel == "node-role.kubernetes.io/worker"
nodeGroupLabel == "hyperstack.cloud/node-group-id"
clusterIdLabel == "hyperstack.cloud/cluster-id"

\* Go's map read: the zero value "" for a missing key
LabelValue(labels, key) == IF key \in DOMAIN labels THEN labels[key] ELSE ""

\* ------------------------------------------------- what the cloud returns
Failure == [err |-> TRUE]

Ok(v) == [err |-> FALSE, val |-> v]

Roles == {"worker", "master"}

GroupName(id) == <<"group", id>>

\* a node-group record of the API without its identity
Templates ==
  [Role : Roles, MinCount : 0..MaxSize, MaxCount : 0..MaxSize,
   Count : 0..(MaxSize + 1)]

\* a cluster of worker groups with minCount 0, each either fixed at 0 nodes
\* or elastic up to MaxSize, and a count within the bounds
StableTemplates ==
  {t \in Templates : /\ t.Role = "worker" /\ t.MinCount = 0
                     /\ t.MaxCount \in {0, MaxSize} /\ t.Count <= t.MaxCount}

Record(id, t) ==
  [Id |-> id, Name |-> GroupName(id), Role |-> t.Role,
   MinCount |-> t.MinCount, MaxCount |-> t.MaxCount, Count |-> t.Count]

RECURSIVE ListsFrom(_, _)
\* the lists of records with ascending ids in from..MaxGroups
ListsFrom(T, from) ==
  IF from > MaxGroups THEN {<<>>}
  ELSE LET rest == ListsFrom(T, from + 1)
       IN  rest \cup {<<Record(from, t)>> \o l : t \in T, l \in rest}

ApiLists == ListsFrom(Templates, 1)

StableLists == ListsFrom(StableTemplates, 1)

Clusters ==
  {[Status |-> "ACTIVE", IsReconciling |-> FALSE],
   [Status |-> "RECONCILING", IsReconciling |-> TRUE]}

\* the statuses the code names, and one it does not
Statuses == {"ACTIVE", "CREATING", "RECONCILING", "WAITING", "DELETED", "UPDATING"}

ClustersAnyStatus == [Status : Statuses, IsReconciling : BOOLEAN]

\* a ListClusterNodes response: the ids of the cluster's nodes
NodeLists == {<<100, 200>>}

\* the value of the cluster-id label of the local node
ClusterIdLabels == {<<"7">>, <<"x">>}

\* ------------------------------------------------------------------ state
VARIABLES
  client,       \* Manager.client: the gateway's settings; NoManager before a
                \* successful construction
  nodeGroups,   \* Manager.nodeGroups: the published sequence of handle addresses
  heap,         \* the NodeGroup handles that exist: address -> handle
  recs,         \* the node-group records handles point to: address -> record
  reconciling,  \* the last Refresh that got an answer found the cluster reconciling
  last,         \* the call the host is looking at: its input, the state it
                \* started in, the error it returned and the requests it made
  do            \* the Do call of the retrying HTTP client that is under way

vars == <<client, nodeGroups, heap, recs, reconciling, last, do>>

\* no Do call is under way
DoIdle == [pc |-> "idle"]

Idle == [op |-> "idle"]

\* context.Background(): no deadline, never cancelled
Background == [hasDeadline |-> FALSE, deadline |-> 0, cancelled |-> FALSE]

\* an operation that makes no request builds no context
NoContext == [none |-> TRUE]

\* ctx := context.Background() at the head of Refresh, IncreaseSize and
\* DeleteNodes: the context every gateway call of the operation is given
OperationContext(op) ==
  IF op \in {"Refresh", "IncreaseSize", "DeleteNodes"} THEN Background
  ELSE NoContext

\* the record of a call of op on handle h with input in
Call(op, h, in, err, reqs, deleted) ==
  [op |-> op, h |-> h, in |-> in, err |-> err, reqs |-> reqs, deleted |-> deleted,
   ctx |-> OperationContext(op),
   pre |-> [nodeGroups |-> nodeGroups, heap |-> heap, recs |-> recs,
            reconciling |-> reconciling]]

\* os.Getenv: the empty string for a variable that is not set
Getenv(env, name) == IF name \in DOMAIN env THEN env[name] ELSE ""

DefaultApiServer == "https://infrahub-api.nexgencloud.com/v1"

\* the environments of the process: each variable unset, empty or set
Envs ==
  LET keys    == {<<>>} \cup {("HYPERSTACK_API_KEY" :> v) : v \in {"", "abc-123-xyz"}}
      servers == {<<>>} \cup {("HYPERSTACK_API_SERVER" :> v) :
                               v \in {"", DefaultApiServer, "https://api.example.test/v1"}}
  IN  {k @@ sv : k \in keys, sv \in servers}

\* (variant) the server of the environment is taken as it is
NewHyperstackClientNoDefault(env) ==
  LET apiKey == Getenv(env, "HYPERSTACK_API_KEY")
      apiServer == Getenv(env, "HYPERSTACK_API_SERVER")
  IN  IF apiKey = "" THEN Failure
      ELSE Ok([ApiKey |-> apiKey, ApiServer |-> apiServer])

NewHyperstackClient(env) ==
  LET apiKey == Getenv(env, "HYPERSTACK_API_KEY")
      apiServer == Getenv(env, "HYPERSTACK_API_SERVER")
  IN  IF apiKey = "" THEN Failure
      ELSE Ok([ApiKey |-> apiKey,
               ApiServer |-> IF apiServer = "" THEN DefaultApiServer ELSE apiServer])

\* newManager: the client and an empty snapshot, or the client's error
newManager(env) ==
  LET c == NewHyperstackClient(env)
  IN  IF c.err THEN Failure ELSE Ok([client |-> c.val, nodeGroups |-> <<>>])

\* no Manager has been constructed
NoManager == [nil |-> TRUE]

\* the state after a construction with the API key set and no server set
Init ==
  /\ client = newManager(("HYPERSTACK_API_KEY" :> "abc-123-xyz")).val.client
  /\ nodeGroups = <<>>
  /\ heap = <<>>
  /\ recs = <<>>
  /\ reconciling = FALSE
  /\ last = Idle
  /\ do = DoIdle

\* the process before BuildHyperstack has been called
InitBuild ==
  /\ client = NoManager
  /\ nodeGroups = <<>>
  /\ heap = <<>>
  /\ recs = <<>>
  /\ reconciling = FALSE
  /\ last = Idle
  /\ do = DoIdle

\* the record of a call that returns the value ret
CallRet(op, h, in, err, ret) == Call(op, h, in, err, <<>>, <<>>) @@ [ret |-> ret]

\* BuildHyperstack: the provider over a new Manager, or null when newManager
\* returns an error
BuildHyperstack ==
  /\ last = Idle
  /\ client = NoManager
  /\ \E env \in Envs :
       LET m == newManager(env)
       IN  /\ last' = CallRet("BuildHyperstack", 0, [env |-> env],
                              IF m.err THEN "noApiKey" ELSE "nil",
                              IF m.err THEN "null" ELSE "provider")
           /\ client' = IF m.err THEN NoManager ELSE m.val.client
           /\ nodeGroups' = IF m.err THEN nodeGroups ELSE m.val.nodeGroups
           /\ UNCHANGED <<heap, recs, reconciling, do>>

\* the host has looked at the result of the call and goes on; a call that
\* panicked has ended the process
Return ==
  /\ last # Idle
  /\ last.err # "panic"
  /\ last' = Idle
  /\ UNCHANGED <<client, nodeGroups, heap, recs, reconciling, do>>

\* ---------------------------------------------------------------- Refresh
\* (variant) the second test written with < in place of <=
SkippedStrict(rec) == rec.Role # "worker" \/ rec.MaxCount < rec.MinCount

\* the two "continue" tests of the loop
Skipped(rec) == rec.Role # "worker" \/ rec.MaxCount <= rec.MinCount

\* (variant) one variable for the whole loop, as before Go 1.22
LoopVarShared(i) == 1

\* The variable that iteration i of "for _, nodeGroup := range" declares and
\* whose address the handle keeps: one per iteration (Go 1.22 and later, the
\* language version of the module that imports simulator/framework).
LoopVar(i) == i

\* (variant) the two bounds are stored in each other's field
NewHandleSwapped(rec, i, nodes, clusterIdInt, status) ==
  [id |-> rec.Id, minSize |-> rec.MaxCount, maxSize |-> rec.MinCount,
   nodeGroup |-> LoopVar(i), nodes |-> nodes, clusterId |-> clusterIdInt,
   status |-> status]

\* the handle that iteration i appends
NewHandle(rec, i, nodes, clusterIdInt, status) ==
  [id |-> rec.Id, minSize |-> rec.MinCount, maxSize |-> rec.MaxCount,
   nodeGroup |-> LoopVar(i), nodes |-> nodes, clusterId |-> clusterIdInt,
   status |-> status]

RECURSIVE RefreshLoop(_, _, _, _, _, _)
\* the loop from iteration i on; acc holds group, the requests made and err
RefreshLoop(list, i, clusterIdInt, status, nodesResps, acc) ==
  IF i > Len(list) THEN acc
  ELSE IF Skipped(list[i])
       THEN RefreshLoop(list, i + 1, clusterIdInt, status, nodesResps, acc)
       ELSE LET call == Len(acc.group) + 1
                resp == nodesResps[call]
                reqs == Append(acc.reqs,
                               [call |-> "ListClusterNodes", clusterId |-> clusterIdInt])
            IN  IF resp.err
                THEN [acc EXCEPT !.reqs = reqs, !.err = "listClusterNodes"]
                ELSE RefreshLoop(list, i + 1, clusterIdInt, status, nodesResps,
                       [acc EXCEPT
                          !.reqs = reqs,
                          !.group = Append(acc.group,
                                      NewHandle(list[i], i, resp.val,
                                                clusterIdInt, status))])

\* Refresh up to its last statement: the error it returns, the requests it
\* made and the sequence it built
RefreshRun(in) ==
  LET none(err, reqs) == [err |-> err, reqs |-> reqs, group |-> <<>>]
      cid == Atoi(in.label.val)
      r1  == <<[call |-> "ListNodeGroups", clusterId |-> cid.val]>>
      r2  == Append(r1, [call |-> "GetCluster", clusterId |-> cid.val])
  IN  IF in.label.err THEN none("getNodeLabel", <<>>)
      ELSE IF ~cid.ok THEN none("atoi", <<>>)
      ELSE IF in.groups.err THEN none("listNodeGroups", r1)
      ELSE IF in.cluster.err THEN none("getCluster", r2)
      ELSE IF in.cluster.val.IsReconciling THEN none("reconciling", r2)
      ELSE RefreshLoop(in.groups.val, 1, cid.val, in.cluster.val.Status,
                       in.nodes, none("nil", r2))

\* the answers to the ListClusterNodes calls of one Refresh, by call number;
\* once a call has failed no further one is made
NodeAnswers ==
  LET NodeResps == {Failure} \cup {Ok(n) : n \in NodeLists}
  IN  {n \in [1..MaxGroups -> NodeResps] :
         \A k \in 1..MaxGroups : n[k].err => \A j \in k..MaxGroups : n[j].err}

NoNodes == [k \in 1..MaxGroups |-> Failure]

\* an answer to a call that is never made is left at Failure, so that each
\* run of Refresh is enumerated once
Reached(in) ==
  /\ (in.label.err \/ ~Atoi(in.label.val).ok) => in.groups = Failure
  /\ in.groups.err => in.cluster = Failure
  /\ (in.cluster.err \/ in.cluster.val.IsReconciling) => in.nodes = NoNodes

\* the value the loop variable var holds when the loop is over
LoopVarValue(list, var) ==
  list[CHOOSE i \in 1..Len(list) :
         LoopVar(i) = var /\ \A j \in (i + 1)..Len(list) : LoopVar(j) # var]

\* (variant) the loop variable is the same one in every Refresh: the records
\* of the new handles take the addresses of the records of the old ones
PublishOverOld(run, list, keep) ==
  LET keepSeq  == SortedSeq(keep)
      oldRecs  == SortedSeq({heap[h].nodeGroup : h \in keep})
      loopVars == SortedSeq({run.group[k].nodeGroup : k \in 1..Len(run.group)})
      nk       == Len(keepSeq)
      nr       == Len(oldRecs)
      nn       == Len(loopVars)
  IN  /\ heap' = [a \in 1..(nk + Len(run.group)) |->
                    IF a <= nk
                    THEN [heap[keepSeq[a]] EXCEPT
                            !.nodeGroup = PosOf(oldRecs, heap[keepSeq[a]].nodeGroup)]
                    ELSE [run.group[a - nk] EXCEPT
                            !.nodeGroup = PosOf(loopVars, run.group[a - nk].nodeGroup)]]
      /\ recs' = [a \in 1..(IF nr > nn THEN nr ELSE nn) |->
                    IF a <= nn THEN LoopVarValue(list, loopVars[a])
                    ELSE recs[oldRecs[a]]]
      /\ nodeGroups' = [k \in 1..Len(run.group) |-> nk + k]

\* m.nodeGroups = group, with the handles in keep still held by the host:
\* the heaps are the kept handles and their records, then the new ones
Publish(run, list, keep) ==
  LET keepSeq  == SortedSeq(keep)
      oldRecs  == SortedSeq({heap[h].nodeGroup : h \in keep})
      loopVars == SortedSeq({run.group[k].nodeGroup : k \in 1..Len(run.group)})
      nk       == Len(keepSeq)
      nr       == Len(oldRecs)
  IN  /\ heap' = [a \in 1..(nk + Len(run.group)) |->
                    IF a <= nk
                    THEN [heap[keepSeq[a]] EXCEPT
                            !.nodeGroup = PosOf(oldRecs, heap[keepSeq[a]].nodeGroup)]
                    ELSE [run.group[a - nk] EXCEPT
                            !.nodeGroup = nr + PosOf(loopVars, run.group[a - nk].nodeGroup)]]
      /\ recs' = [a \in 1..(nr + Len(loopVars)) |->
                    IF a <= nr THEN recs[oldRecs[a]]
                    ELSE LoopVarValue(list, loopVars[a - nr])]
      /\ nodeGroups' = [k \in 1..Len(run.group) |-> nk + k]

\* (variant) the loop appends to m.nodeGroups itself, so that the groups built
\* before a failing ListClusterNodes call are published
PublishesPartial(run) == run.err \in {"nil", "listClusterNodes"}

\* (variant) group is assigned before the reconciling test
PublishesBeforeReconcilingTest(run) == run.err \in {"nil", "reconciling"}

\* whether Refresh reaches "m.nodeGroups = group"
Publishes(run) == run.err = "nil"

\* Refresh with the result of GetNodeLabel drawn from Labels, the answers of
\* ListNodeGroups from L and those of GetCluster from C; keep is the set of
\* handles the host goes on holding
RefreshFrom(Labels, L, C) ==
  /\ last = Idle
  /\ client # NoManager
  /\ UNCHANGED <<client, do>>
  /\ \E label \in Labels,
        groups \in {Failure} \cup {Ok(g) : g \in L},
        cluster \in {Failure} \cup {Ok(c) : c \in C},
        nodes \in NodeAnswers,
        keep \in SUBSET (1..Len(heap)) :
    LET in  == [label |-> label, groups |-> groups, cluster |-> cluster,
                nodes |-> nodes, keep |-> keep]
        run == RefreshRun(in)
    IN  /\ Reached(in)
        /\ Cardinality(keep) <= MaxStale
        /\ last' = Call("Refresh", 0, in, run.err, run.reqs, <<>>)
        /\ reconciling' = IF run.err = "nil" THEN FALSE
                          ELSE IF run.err = "reconciling" THEN TRUE
                          ELSE reconciling
        /\ IF Publishes(run)
           THEN Publish(run, in.groups.val, keep)
           ELSE /\ keep = {}
                /\ UNCHANGED <<nodeGroups, heap, recs>>

\* Refresh when GetNodeLabel returns: an error, or the value of the label
Refresh(L, C) ==
  RefreshFrom({Failure} \cup {Ok(l) : l \in ClusterIdLabels}, L, C)

\* what the metadata endpoint does to GetMetadata: the GET fails, the read of
\* the body fails, the body is not JSON, or a payload arrives
MetadataOutcomes == {"getFailed", "readFailed", "decodeFailed", "ok"}

\* the surroundings of GetNodeLabel: whether rest.InClusterConfig and
\* kubernetes.NewForConfig succeed, the metadata endpoint, and the answer to
\* the Get of the local Node (an error, a Node without the label, or a Node
\* with a value of the label)
NodeEnvs ==
  [config : BOOLEAN, clientset : BOOLEAN, metadata : MetadataOutcomes,
   node : {[err |-> "get"], [err |-> "noLabel"]}
            \cup {[err |-> "nil", val |-> l] : l \in ClusterIdLabels}]

\* GetMetadata: a payload, or panic(...) at each of its three failures
GetMetadata(outcome) ==
  IF outcome = "ok" THEN [panic |-> FALSE, err |-> FALSE]
  ELSE [panic |-> TRUE, err |-> FALSE]

\* GetNodeLabel(clusterIdLabel): the value and error it returns, or the panic
\* that GetMetadata raises through it
GetNodeLabel(env) ==
  LET returns(res) == [panic |-> FALSE, res |-> res]
      metadata == GetMetadata(env.metadata)
  IN  IF ~env.config THEN returns(Failure)
      ELSE IF ~env.clientset THEN returns(Failure)
      ELSE IF metadata.panic THEN [panic |-> TRUE, res |-> Failure]
      ELSE IF metadata.err THEN returns(Failure)
      ELSE IF env.node.err # "nil" THEN returns(Failure)
      ELSE returns(Ok(env.node.val))

\* a call of GetNodeLabel on its own
GetNodeLabelCall ==
  /\ last = Idle
  /\ \E env \in NodeEnvs :
       LET r == GetNodeLabel(env)
       IN  last' = IF r.panic
                   THEN Call("GetNodeLabel", 0, [env |-> env], "panic", <<>>, <<>>)
                   ELSE CallRet("GetNodeLabel", 0, [env |-> env],
                                IF r.res.err THEN "getNodeLabel" ELSE "nil",
                                r.res)
  /\ UNCHANGED <<client, nodeGroups, heap, recs, reconciling, do>>

\* Refresh on a node with the surroundings env: a panic of GetMetadata is not
\* recovered and ends the process inside the call
RefreshOnNode ==
  /\ last = Idle
  /\ client # NoManager
  /\ \E env \in NodeEnvs :
       LET r == GetNodeLabel(env)
       IN  IF r.panic
           THEN /\ last' = Call("Refresh", 0, [env |-> env], "panic", <<>>, <<>>)
                /\ UNCHANGED <<client, nodeGroups, heap, recs, reconciling, do>>
           ELSE RefreshFrom({r.res}, StableLists, Clusters)

\* a Refresh of a cluster of stable worker groups
RefreshStable == Refresh(StableLists, Clusters)

\* a Refresh of any cluster while no handle exists yet
RefreshStartup == heap = <<>> /\ Refresh(ApiLists, Clusters)

\* the first Refresh of a Manager that has been built
RefreshBuilt == heap = <<>> /\ Refresh(StableLists, Clusters)

\* the first Refresh of a cluster in any status
RefreshAnyStatus == heap = <<>> /\ Refresh(StableLists, ClustersAnyStatus)

\* ----------------------------------------------------------- IncreaseSize
Handles == 1..Len(heap)

\* *n.nodeGroup.Count
Count(h) == recs[heap[h].nodeGroup].Count

\* n.nodeGroup.Name
Name(h) == recs[heap[h].nodeGroup].Name

MaxSizeOf(h) == heap[h].maxSize

MinSizeOf(h) == heap[h].minSize

TargetSize(h) == Count(h)

Deltas == (0 - 1)..(MaxSize + 1)

\* (variant) a target one above the maximum is let through
IncreaseRejectedAboveNext(h, delta) == Count(h) + delta > MaxSizeOf(h) + 1

\* the test that makes IncreaseSize return its "too large" error
IncreaseRejected(h, delta) == Count(h) + delta > MaxSizeOf(h)

\* (variant) the request carries the target size in place of the delta
CreateNodesRequestTarget(h, delta) ==
  [call |-> "CreateNodes", clusterId |-> heap[h].clusterId,
   count |-> Count(h) + delta, nodeGroup |-> Name(h)]

\* the request IncreaseSize sends
CreateNodesRequest(h, delta) ==
  [call |-> "CreateNodes", clusterId |-> heap[h].clusterId, count |-> delta,
   nodeGroup |-> Name(h)]

IncreaseSize ==
  /\ last = Idle
  /\ \E h \in Handles, delta \in Deltas, cloud \in {Failure, Ok("created")} :
    LET targetSize == Count(h) + delta
        in == [delta |-> delta, cloud |-> cloud]
    IN  /\ targetSize >= 0 - MaxDeficit
        /\ UNCHANGED <<client, nodeGroups, heap, reconciling, do>>
        /\ IF IncreaseRejected(h, delta)
           THEN /\ cloud = Failure
                /\ last' = Call("IncreaseSize", h, in, "tooLarge", <<>>, <<>>)
                /\ UNCHANGED recs
           ELSE IF cloud.err
           THEN /\ last' = Call("IncreaseSize", h, in, "createNodes",
                                <<CreateNodesRequest(h, delta)>>, <<>>)
                /\ UNCHANGED recs
           ELSE /\ last' = Call("IncreaseSize", h, in, "nil",
                                <<CreateNodesRequest(h, delta)>>, <<>>)
                /\ recs' = [recs EXCEPT ![heap[h].nodeGroup].Count = targetSize]

\* ------------------------------------------------------------ DeleteNodes
Node(name, labels) == [Name |-> name, Labels |-> labels]

\* the Kubernetes nodes the host may name
K8sNodes ==
  {Node("n1", (nodeIdLabel :> <<"1", "0", "0">>) @@ (nodeRoleLabel :> "worker")
              @@ (nodeGroupLabel :> <<"1">>)),
   Node("n2", (nodeIdLabel :> <<"2", "0", "0">>) @@ (nodeRoleLabel :> "worker")
              @@ (nodeGroupLabel :> <<"2">>)),
   Node("n3", (nodeRoleLabel :> "worker") @@ (nodeGroupLabel :> <<"1">>)),
   Node("n4", (nodeIdLabel :> <<"3", "0", "0">>) @@ (nodeGroupLabel :> <<"1">>)),
   Node("n5", (nodeIdLabel :> <<"a", "b", "c">>) @@ (nodeRoleLabel :> "worker")
              @@ (nodeGroupLabel :> <<"1">>)),
   Node("n6", (nodeIdLabel :> <<"a", "b", "c">>) @@ (nodeRoleLabel :> "master")),
   Node("n7", <<>>)}

RECURSIVE NodeListsUpTo(_)
\* the lists of at most n different nodes
NodeListsUpTo(n) ==
  IF n = 0 THEN {<<>>}
  ELSE LET shorter == NodeListsUpTo(n - 1)
           longer  == {p \in shorter \X K8sNodes : p[2] \notin Range(p[1])}
       IN  shorter \cup {Append(p[1], p[2]) : p \in longer}

RECURSIVE CollectNodesRoleFirst(_, _, _)
\* (variant) the role test comes before the test for the node-id label
CollectNodesRoleFirst(nodes, i, acc) ==
  IF i > Len(nodes) THEN acc
  ELSE LET node     == nodes[i]
           ok       == nodeIdLabel \in DOMAIN node.Labels
           nodeID   == LabelValue(node.Labels, nodeIdLabel)
           nodeRole == LabelValue(node.Labels, nodeRoleLabel)
           parsed   == Atoi(nodeID)
       IN  IF nodeRole # "worker" THEN CollectNodesRoleFirst(nodes, i + 1, acc)
           ELSE IF ~ok THEN [acc EXCEPT !.err = "missingLabel"]
           ELSE IF ~parsed.ok THEN [acc EXCEPT !.err = "atoi"]
           ELSE CollectNodesRoleFirst(nodes, i + 1,
                  [acc EXCEPT !.nodeIDsInt = Append(acc.nodeIDsInt, parsed.val),
                              !.nodeNames = Append(acc.nodeNames, node.Name)])

RECURSIVE CollectNodes(_, _, _)
\* the loop of DeleteNodes from node i on; acc holds nodeIDsInt, nodeNames, err
CollectNodes(nodes, i, acc) ==
  IF i > Len(nodes) THEN acc
  ELSE LET node     == nodes[i]
           ok       == nodeIdLabel \in DOMAIN node.Labels
           nodeID   == LabelValue(node.Labels, nodeIdLabel)
           nodeRole == LabelValue(node.Labels, nodeRoleLabel)
           parsed   == Atoi(nodeID)
       IN  IF ~ok THEN [acc EXCEPT !.err = "missingLabel"]
           ELSE IF nodeRole # "worker" THEN CollectNodes(nodes, i + 1, acc)
           ELSE IF ~parsed.ok THEN [acc EXCEPT !.err = "atoi"]
           ELSE CollectNodes(nodes, i + 1,
                  [acc EXCEPT !.nodeIDsInt = Append(acc.nodeIDsInt, parsed.val),
                              !.nodeNames = Append(acc.nodeNames, node.Name)])

\* (variant) a Delete that fails is passed over and the loop goes on
DeleteNodeObjectContinue(nodeNames, failAt) ==
  IF failAt = 0 THEN [err |-> TRUE, deleted |-> <<>>]
  ELSE IF failAt <= Len(nodeNames)
  THEN [err |-> TRUE,
        deleted |-> SubSeq(nodeNames, 1, failAt - 1)
                      \o SubSeq(nodeNames, failAt + 1, Len(nodeNames))]
  ELSE [err |-> FALSE, deleted |-> nodeNames]

\* DeleteNodeObject: failAt = 0 is a failure to build the client, failAt = k
\* a failure of the k-th Delete; the names deleted and the error
DeleteNodeObject(nodeNames, failAt) ==
  IF failAt = 0 THEN [err |-> TRUE, deleted |-> <<>>]
  ELSE IF failAt <= Len(nodeNames)
  THEN [err |-> TRUE, deleted |-> SubSeq(nodeNames, 1, failAt - 1)]
  ELSE [err |-> FALSE, deleted |-> nodeNames]

\* (variant) the test reads the handle's node list, not the snapshot
DeleteSkippedOnNodes(h) == Len(heap[h].nodes) = 0

\* the early return of DeleteNodes
DeleteSkipped(h) == Len(nodeGroups) = 0

\* (variant) the count goes down by the number of input nodes
DecrementedCountByInput(h, nodeIDsInt, nodes) == Count(h) - Len(nodes)

\* the count DeleteNodes stores once the cloud has accepted the request
DecrementedCount(h, nodeIDsInt, nodes) == Count(h) - Len(nodeIDsInt)

DeleteInputs == NodeListsUpTo(MaxNodes)

\* (variant) the error of DeleteClusterNodes is not looked at
DeleteRequestFailedIgnored(cloud) == FALSE

\* "if err != nil { return err }" after DeleteClusterNodesWithResponse
DeleteRequestFailed(cloud) == cloud.err

DeleteNodes ==
  /\ last = Idle
  /\ \E h \in Handles, nodes \in DeleteInputs,
     cloud \in {Failure, Ok("deleted")}, failAt \in 0..(MaxNodes + 1) :
    LET in  == [nodes |-> nodes, cloud |-> cloud, failAt |-> failAt]
        col == CollectNodes(nodes, 1,
                 [nodeIDsInt |-> <<>>, nodeNames |-> <<>>, err |-> "nil"])
        req == [call |-> "DeleteClusterNodes", clusterId |-> heap[h].clusterId,
                ids |-> col.nodeIDsInt]
        k8s == DeleteNodeObject(col.nodeNames, failAt)
        unreached == cloud = Failure /\ failAt = 0
    IN  /\ failAt <= Len(nodes) + 1
        /\ UNCHANGED <<client, nodeGroups, heap, reconciling, do>>
        /\ IF DeleteSkipped(h)
           THEN /\ unreached
                /\ last' = Call("DeleteNodes", h, in, "nil", <<>>, <<>>)
                /\ UNCHANGED recs
           ELSE IF col.err # "nil"
           THEN /\ unreached
                /\ last' = Call("DeleteNodes", h, in, col.err, <<>>, <<>>)
                /\ UNCHANGED recs
           ELSE IF DeleteRequestFailed(cloud)
           THEN /\ failAt = 0
                /\ last' = Call("DeleteNodes", h, in, "deleteClusterNodes", <<req>>, <<>>)
                /\ UNCHANGED recs
           ELSE /\ DecrementedCount(h, col.nodeIDsInt, nodes) >= 0 - MaxDeficit
                /\ recs' = [recs EXCEPT ![heap[h].nodeGroup].Count =
                                          DecrementedCount(h, col.nodeIDsInt, nodes)]
                /\ last' = Call("DeleteNodes", h, in,
                                IF k8s.err THEN "deleteNodeObject" ELSE "nil",
                                <<req>>, k8s.deleted)

\* ------------------------------------- no-op and unsupported operations
\* cloudprovider.ErrNotImplemented
ErrNotImplemented == "notImplemented"

\* DecreaseTargetSize only returns nil
DecreaseTargetSize ==
  /\ last = Idle
  /\ \E h \in Handles, delta \in Deltas :
       /\ last' = Call("DecreaseTargetSize", h, [delta |-> delta], "nil", <<>>, <<>>)
       /\ UNCHANGED <<client, nodeGroups, heap, recs, reconciling, do>>

\* (variant) the operation returns nil like DecreaseTargetSize
NotImplementedSilent(op, h, in) ==
  /\ last = Idle
  /\ last' = Call(op, h, in, "nil", <<>>, <<>>)
  /\ UNCHANGED <<client, nodeGroups, heap, recs, reconciling, do>>

\* an operation of the handle h that only returns the sentinel
NotImplemented(op, h, in) ==
  /\ last = Idle
  /\ last' = Call(op, h, in, ErrNotImplemented, <<>>, <<>>)
  /\ UNCHANGED <<client, nodeGroups, heap, recs, reconciling, do>>

AtomicIncreaseSize ==
  \E h \in Handles, delta \in Deltas :
    NotImplemented("AtomicIncreaseSize", h, [delta |-> delta])

ForceDeleteNodes ==
  \E h \in Handles, nodes \in DeleteInputs :
    NotImplemented("ForceDeleteNodes", h, [nodes |-> nodes])

Create == \E h \in Handles : NotImplemented("Create", h, <<>>)

Delete == \E h \in Handles : NotImplemented("Delete", h, <<>>)

TemplateNodeInfo == \E h \in Handles : NotImplemented("TemplateNodeInfo", h, <<>>)

GetOptions == \E h \in Handles : NotImplemented("GetOptions", h, <<>>)

Unsupported ==
  \/ AtomicIncreaseSize
  \/ ForceDeleteNodes
  \/ Create
  \/ Delete
  \/ TemplateNodeInfo
  \/ GetOptions

\* ------------------------------------------------ reading a node group
\* (variant) the id is formatted from the handle's cluster id
IdOfCluster(h) == Itoa(heap[h].clusterId)

\* NodeGroup.Id: the id of the record the handle points to, in decimal
Id(h) == Itoa(recs[heap[h].nodeGroup].Id)

InstanceRunning == 1

InstanceCreating == 2

InstanceDeleting == 3

\* the unknown state
InstanceUnknown == 0 - 1

\* (variant) WAITING is not among the statuses of a cluster being created
fromHyperstackStatusNoWaiting(status) ==
  CASE status = "ACTIVE" -> InstanceRunning
    [] status \in {"CREATING", "RECONCILING"} -> InstanceCreating
    [] status = "DELETED" -> InstanceDeleting
    [] OTHER -> InstanceUnknown

fromHyperstackStatus(status) ==
  CASE status = "ACTIVE" -> InstanceRunning
    [] status \in {"CREATING", "RECONCILING", "WAITING"} -> InstanceCreating
    [] status = "DELETED" -> InstanceDeleting
    [] OTHER -> InstanceUnknown

\* what Nodes() returns: an instance per node of the handle
NodesOf(h) ==
  [k \in 1..Len(heap[h].nodes) |->
     [Id |-> Itoa(heap[h].nodes[k]), State |-> fromHyperstackStatus(heap[h].status)]]

Nodes ==
  /\ last = Idle
  /\ \E h \in Handles :
       last' = CallRet("Nodes", h, <<>>, "nil", NodesOf(h))
  /\ UNCHANGED <<client, nodeGroups, heap, recs, reconciling, do>>

\* --------------------------------------------------- the provider facade
\* NodeGroups(): the Manager's sequence
NodeGroups ==
  /\ last = Idle
  /\ last' = CallRet("NodeGroups", 0, <<>>, "nil", nodeGroups)
  /\ UNCHANGED <<client, nodeGroups, heap, recs, reconciling, do>>

\* the nodes the host asks the group of: those of K8sNodes, one whose
\* node-group-id label is no number and one whose label names no group
FacadeNodes ==
  K8sNodes \cup
    {Node("n8", (nodeGroupLabel :> <<"a", "b", "c">>)),
     Node("n9", (nodeGroupLabel :> <<"9">>))}

\* a null NodeGroup
NilGroup == 0

\* NodeGroupForNode: the error and the group (a handle address) it returns
NodeGroupForNodeResult(node) ==
  IF nodeGroupLabel \notin DOMAIN node.Labels
  THEN [err |-> "nil", group |-> NilGroup]
  ELSE LET id == Atoi(node.Labels[nodeGroupLabel])
           ks == {k \in 1..Len(nodeGroups) : heap[nodeGroups[k]].id = id.val}
       IN  IF ~id.ok THEN [err |-> "atoi", group |-> NilGroup]
           ELSE IF ks = {} THEN [err |-> "nil", group |-> NilGroup]
           ELSE [err |-> "nil",
                 group |-> nodeGroups[CHOOSE k \in ks : \A j \in ks : k <= j]]

NodeGroupForNode ==
  /\ last = Idle
  /\ \E node \in FacadeNodes :
       LET r == NodeGroupForNodeResult(node)
       IN  last' = CallRet("NodeGroupForNode", 0, [node |-> node], r.err, r.group)
  /\ UNCHANGED <<client, nodeGroups, heap, recs, reconciling, do>>

\* ------------------------------------------- the retrying HTTP client
\* the largest MaxRetries of a configuration
MaxRetriesCap == 3

\* time.Duration counts nanoseconds in an int64; here a Duration counts
\* milliseconds in a signed integer of DurationBits bits
Millisecond == 1

Second == 1000 * Millisecond

DurationBits == 16

RECURSIVE Pow2(_)
Pow2(n) == IF n = 0 THEN 1 ELSE 2 * Pow2(n - 1)

MaxDuration == Pow2(DurationBits - 1) - 1

MinDuration == 0 - Pow2(DurationBits - 1)

\* BaseDelay and MaxDelay of the configurations a caller passes
BaseDelayTicks == 4

MaxDelayTicks == 8

DefaultRetryableErrors == {429, 500, 502, 503, 504}

\* (variant) the defaults with five retries
DefaultRetryConfigFiveRetries ==
  [MaxRetries |-> 5, BaseDelay |-> 100 * Millisecond, MaxDelay |-> 5 * Second,
   RetryableErrors |-> DefaultRetryableErrors]

DefaultRetryConfig ==
  [MaxRetries |-> 3, BaseDelay |-> 100 * Millisecond, MaxDelay |-> 5 * Second,
   RetryableErrors |-> DefaultRetryableErrors]

\* the configurations of a client: MaxRetries, and the default set of
\* retryable status codes or a set of one code
RetryConfigs ==
  [MaxRetries : (0 - 1)..MaxRetriesCap,
   BaseDelay : {BaseDelayTicks * Millisecond},
   MaxDelay : {MaxDelayTicks * Millisecond},
   RetryableErrors : {DefaultRetryableErrors, {503}}]

\* a nil *RetryConfig
NilConfig == [nil |-> TRUE]

\* the retryConfig of the client NewRetryableHTTPClient builds
NewRetryableHTTPClient(retryConfig) ==
  IF retryConfig = NilConfig THEN DefaultRetryConfig ELSE retryConfig

\* (variant) every status from 400 on is retried
isRetryableErrorFrom400(rc, statusCode) == statusCode >= 400

isRetryableError(rc, statusCode) == statusCode \in rc.RetryableErrors

\* rand.Float64() draws k / JitterSteps, k in 0..JitterSteps-1
JitterSteps == 4

Jitters == 0..(JitterSteps - 1)

\* what the conversion of a float64 beyond the int64 range may give: the
\* result is implementation-specific (the smallest value on amd64, the
\* largest on arm64)
Overflows == {MinDuration, MaxDuration}

\* time.Duration(x) of a float64 x >= 0: truncation, and ovf out of range
ToDuration(x, ovf) == IF x > MaxDuration THEN ovf ELSE x

\* the quotient of a by b > 0 truncated toward zero
TruncDiv(a, b) == IF a >= 0 THEN a \div b ELSE 0 - ((0 - a) \div b)

\* (variant) the jitter factor is (0.5 + U), not halved
JitterOfFull(delay, k) == TruncDiv(delay * (JitterSteps + 2 * k), 2 * JitterSteps)

\* time.Duration(float64(delay) * (0.5 + U) * 0.5) with U = k / JitterSteps
JitterOf(delay, k) == TruncDiv(delay * (JitterSteps + 2 * k), 4 * JitterSteps)

calculateDelay(rc, attempt, k, ovf) ==
  LET delay  == ToDuration(rc.BaseDelay * Pow2(attempt), ovf)
      capped == IF delay > rc.MaxDelay THEN rc.MaxDelay ELSE delay
  IN  JitterOf(capped, k)

\* what the transport answers: an error, or a response with a status code
StatusCodes == {200, 400, 429, 503}

TransportError(n) == [kind |-> "err", n |-> n]

Response(statusCode, n) == [kind |-> "resp", StatusCode |-> statusCode, n |-> n]

\* the outcomes of the n-th invocation of the transport
Outcomes(n) == {TransportError(n)} \cup {Response(c, n) : c \in StatusCodes}

Nil == [kind |-> "nil"]

CtxErr == [kind |-> "ctx"]

\* Do is called on a client built with a configuration or with nil, with a
\* request whose context may already be done
DoStart ==
  /\ do = DoIdle
  /\ \E given \in RetryConfigs \cup {NilConfig}, cancelled \in BOOLEAN :
       do' = [pc |-> "loop", given |-> given,
              retryConfig |-> NewRetryableHTTPClient(given), attempt |-> 0,
              cancelled |-> cancelled, results |-> <<>>, closed |-> <<>>,
              slept |-> <<>>, remaining |-> 0, lastErr |-> Nil,
              lastResp |-> Nil, resp |-> Nil, err |-> Nil]
  /\ UNCHANGED <<client, nodeGroups, heap, recs, reconciling, last>>

\* Do returns resp and err
Returned(resp, err) == [do EXCEPT !.pc = "returned", !.resp = resp, !.err = err]

\* (variant) the context is never looked at
ContextDoneNever(d) == FALSE

\* the select on req.Context().Done()
ContextDone(d) == d.cancelled

\* the head of the loop: its condition, the select on the context, and the
\* invocation of the transport
DoAttempt ==
  /\ do.pc = "loop"
  /\ do' = IF do.attempt > do.retryConfig.MaxRetries
           THEN IF do.lastResp # Nil THEN Returned(do.lastResp, Nil)
                ELSE Returned(Nil, [kind |-> "maxRetries", cause |-> do.lastErr])
           ELSE IF ContextDone(do) THEN Returned(Nil, CtxErr)
           ELSE [do EXCEPT !.pc = "transport"]
  /\ UNCHANGED <<client, nodeGroups, heap, recs, reconciling, last>>

\* (variant) a retry follows the last attempt too
AttemptsRemainInclusive(rc, attempt) == attempt <= rc.MaxRetries

\* attempt < r.retryConfig.MaxRetries
AttemptsRemain(rc, attempt) == attempt < rc.MaxRetries

\* (variant) a retryable status on the last attempt is returned as an error
LastRetryableAsError(seen, o) ==
  [seen EXCEPT !.lastResp = o, !.pc = "returned", !.resp = Nil,
               !.err = [kind |-> "maxRetries", cause |-> seen.lastErr]]

\* (variant) the body is closed on the last attempt too
LastRetryableClosed(seen, o) ==
  [seen EXCEPT !.lastResp = o, !.closed = Append(seen.closed, o.n),
               !.pc = "returned", !.resp = o, !.err = Nil]

\* return resp, nil on the last attempt with a retryable status
LastRetryable(seen, o) ==
  [seen EXCEPT !.lastResp = o, !.pc = "returned", !.resp = o, !.err = Nil]

\* the body of the loop once the transport has answered with o; delay is
\* what calculateDelay(attempt) gives
AfterTransport(o, delay) ==
  LET rc   == do.retryConfig
      seen == [do EXCEPT !.results = Append(do.results, o)]
      backoff(d) == [d EXCEPT !.pc = "sleep", !.remaining = delay,
                              !.slept = Append(d.slept, do.attempt)]
  IN  IF o.kind = "err"
      THEN IF AttemptsRemain(rc, do.attempt)
           THEN backoff([seen EXCEPT !.lastErr = o])
           ELSE [seen EXCEPT !.lastErr = o, !.pc = "returned", !.resp = Nil, !.err = o]
      ELSE IF isRetryableError(rc, o.StatusCode)
      THEN IF AttemptsRemain(rc, do.attempt)
           THEN backoff([seen EXCEPT !.lastResp = o, !.closed = Append(do.closed, o.n)])
           ELSE LastRetryable(seen, o)
      ELSE [seen EXCEPT !.pc = "returned", !.resp = o, !.err = Nil]

\* the transport answers; a request whose context is done gets an error
DoTransport ==
  /\ do.pc = "transport"
  /\ \E o \in Outcomes(Len(do.results) + 1), k \in Jitters, ovf \in Overflows :
       /\ do.cancelled => o.kind = "err"
       /\ do' = AfterTransport(o, calculateDelay(do.retryConfig, do.attempt, k, ovf))
  /\ UNCHANGED <<client, nodeGroups, heap, recs, reconciling, last>>

\* a millisecond of time.Sleep(delay) passes; Sleep does not look at the
\* context
DoSleep ==
  /\ do.pc = "sleep"
  /\ do.remaining > 0
  /\ do' = [do EXCEPT !.remaining = do.remaining - 1]
  /\ UNCHANGED <<client, nodeGroups, heap, recs, reconciling, last>>

\* time.Sleep(delay) is over: the next iteration
DoWake ==
  /\ do.pc = "sleep"
  /\ do.remaining <= 0
  /\ do' = [do EXCEPT !.pc = "loop", !.attempt = do.attempt + 1]
  /\ UNCHANGED <<client, nodeGroups, heap, recs, reconciling, last>>

\* the request's context is cancelled or passes its deadline
Cancel ==
  /\ do.pc \in {"loop", "transport", "sleep"}
  /\ ~do.cancelled
  /\ do' = [do EXCEPT !.cancelled = TRUE]
  /\ UNCHANGED <<client, nodeGroups, heap, recs, reconciling, last>>

\* the caller has the result of Do
DoDone ==
  /\ do.pc = "returned"
  /\ do' = DoIdle
  /\ UNCHANGED <<client, nodeGroups, heap, recs, reconciling, last>>

\* ------------------------------------------------------- the gateway
\* a Hyperstack whose Client is nil
NilClient == [Client |-> "nil"]

\* the gateways: &Hyperstack{Client: nil} and the ones newManager builds
GatewayClients ==
  {NilClient} \cup {NewHyperstackClient(env).val :
                      env \in {e \in Envs : ~NewHyperstackClient(e).err}}

\* the six operations, with the request each sends and the field of the
\* parsed response each returns
GatewayOps ==
  {"GetCluster", "ListNodeGroups", "ListClusterNodes", "CreateNodes",
   "DeleteClusterNode", "DeleteClusterNodes"}

SuccessField(op) == IF op = "CreateNodes" THEN "JSON201" ELSE "JSON200"

ErrorFields(op) ==
  {"JSON400", "JSON401", "JSON404"}
    \cup (IF op = "CreateNodes" THEN {"JSON409"} ELSE {})

\* what the generated client gives back: an error, a nil result, or a result
\* with one parsed body or none
GatewayAnswers ==
  {"err", "nilResult", "noBody", "JSON200", "JSON201", "JSON400", "JSON401",
   "JSON404", "JSON409"}

GatewayArgs(op) ==
  IF op = "CreateNodes"
    THEN [clusterId : {1, 7}, count : {1}, nodeGroup : {"group-a"}]
  ELSE IF op = "DeleteClusterNode" THEN [clusterId : {1, 7}, nodeId : {2}]
  ELSE IF op = "DeleteClusterNodes" THEN [clusterId : {1, 7}, ids : {<<100>>}]
  ELSE [clusterId : {1, 7}]

\* a nil result of a gateway operation
NilResult == [nil |-> TRUE]

\* (variant) the client reference is not looked at
ClientUnsetNever(c) == FALSE

\* h.Client == nil
ClientUnset(c) == c = NilClient

\* the body the six operations share: the test of h.Client, the request, and
\* the mapping of the answer to a result and an error
GatewayResult(c, op, args, answer) ==
  LET req == [call |-> op] @@ args
      out(err, ret) == [err |-> err, ret |-> ret, reqs |-> <<req>>]
  IN  IF ClientUnset(c)
        THEN [err |-> "notInitialized", ret |-> NilResult, reqs |-> <<>>]
      ELSE IF answer = "err" THEN out("call", NilResult)
      ELSE IF answer = "nilResult" THEN out("emptyResponse", NilResult)
      ELSE IF answer \in ErrorFields(op) THEN out(answer, NilResult)
      ELSE IF answer # SuccessField(op) THEN out("resultIsNil", NilResult)
      ELSE out("nil", [of |-> op, clusterId |-> args.clusterId])

GatewayCall(op) ==
  /\ last = Idle
  /\ \E args \in GatewayArgs(op), answer \in GatewayAnswers :
       LET r == GatewayResult(client, op, args, answer)
       IN  last' = Call(op, 0, [args |-> args, answer |-> answer], r.err,
                        r.reqs, <<>>) @@ [ret |-> r.ret]
  /\ UNCHANGED <<client, nodeGroups, heap, recs, reconciling, do>>

GetClusterWithResponse == GatewayCall("GetCluster")

ListNodeGroupsWithResponse == GatewayCall("ListNodeGroups")

GetClusterNodesWithResponse == GatewayCall("ListClusterNodes")

CreateNodeWithResponse == GatewayCall("CreateNodes")

DeleteClusterNodeWithResponse == GatewayCall("DeleteClusterNode")

DeleteClusterNodesWithResponse == GatewayCall("DeleteClusterNodes")

\* a gateway with or without a client, before any call
InitGateway ==
  /\ client \in GatewayClients
  /\ nodeGroups = <<>>
  /\ heap = <<>>
  /\ recs = <<>>
  /\ reconciling = FALSE
  /\ last = Idle
  /\ do = DoIdle

NextGateway ==
  \/ GetClusterWithResponse
  \/ ListNodeGroupsWithResponse
  \/ GetClusterNodesWithResponse
  \/ CreateNodeWithResponse
  \/ DeleteClusterNodeWithResponse
  \/ DeleteClusterNodesWithResponse
  \/ Return

\* ------------------------------------------------ method-aware timeouts
DefaultTimeoutConfig ==
  [ReadTimeout |-> 3 * Second, WriteTimeout |-> 15 * Second]

\* a nil *TimeoutConfig
NilTimeoutConfig == [nil |-> TRUE]

TimeoutConfigs ==
  {DefaultTimeoutConfig, [ReadTimeout |-> 1 * Second, WriteTimeout |-> 2 * Second]}

\* a context with a deadline
WithDeadline(d) == [hasDeadline |-> TRUE, deadline |-> d, cancelled |-> FALSE]

\* the instants time.Now() gives, and the base contexts a caller passes:
\* the background context, ones with a deadline 2 s and 20 s after the call,
\* and a cancelled one
Instants == {0, 7 * Second}

BaseContexts(now) ==
  {Background, WithDeadline(now + 2 * Second), WithDeadline(now + 20 * Second),
   [Background EXCEPT !.cancelled = TRUE]}

\* context.WithTimeout(parent, timeout) at the instant now: the deadline of
\* the child is the earlier of the parent's and now + timeout, and the child
\* is cancelled when the parent is
ContextWithTimeout(parent, timeout, now) ==
  IF parent.hasDeadline /\ parent.deadline < now + timeout
  THEN parent
  ELSE [hasDeadline |-> TRUE, deadline |-> now + timeout,
        cancelled |-> parent.cancelled]

Methods == {"GET", "HEAD", "OPTIONS", "POST", "PUT", "DELETE", "PATCH", "get", ""}

\* (variant) only GET is a read
IsReadMethodGetOnly(method) == method = "GET"

\* case "GET", "HEAD", "OPTIONS"
IsReadMethod(method) == method \in {"GET", "HEAD", "OPTIONS"}

WithTimeout(ctx, method, timeoutConfig, now) ==
  LET cfg == IF timeoutConfig = NilTimeoutConfig THEN DefaultTimeoutConfig
             ELSE timeoutConfig
      timeout == IF IsReadMethod(method) THEN cfg.ReadTimeout
                 ELSE cfg.WriteTimeout
  IN  ContextWithTimeout(ctx, timeout, now)

\* a call of WithTimeout
WithTimeoutCall ==
  /\ last = Idle
  /\ \E now \in Instants :
       \E ctx \in BaseContexts(now), method \in Methods,
          cfg \in TimeoutConfigs \cup {NilTimeoutConfig} :
         last' = CallRet("WithTimeout", 0,
                         [ctx |-> ctx, method |-> method, cfg |-> cfg, now |-> now],
                         "nil", WithTimeout(ctx, method, cfg, now))
  /\ UNCHANGED <<client, nodeGroups, heap, recs, reconciling, do>>

NextTimeout == WithTimeoutCall \/ Return

\* the largest attempt index calculateDelay is applied to
MaxAttempt == 10

\* the configurations calculateDelay is applied to: the default delays and
\* smaller ones
DelayConfigs ==
  [MaxRetries : {3},
   BaseDelay : {BaseDelayTicks * Millisecond, 100 * Millisecond},
   MaxDelay : {MaxDelayTicks * Millisecond, 5 * Second},
   RetryableErrors : {DefaultRetryableErrors}]

\* rc.calculateDelay(attempt), with the draw of rand.Float64() and the result
\* of an out-of-range conversion as inputs
CalculateDelay ==
  /\ last = Idle
  /\ \E rc \in DelayConfigs, attempt \in 0..MaxAttempt, k \in Jitters,
        ovf \in Overflows :
       last' = CallRet("calculateDelay", 0,
                       [rc |-> rc, attempt |-> attempt, k |-> k, ovf |-> ovf],
                       "nil", calculateDelay(rc, attempt, k, ovf))
  /\ UNCHANGED <<client, nodeGroups, heap, recs, reconciling, do>>

NextDelay == CalculateDelay \/ Return

NextMetadata == GetNodeLabelCall \/ RefreshOnNode \/ Return

NextRetry ==
  DoStart \/ DoAttempt \/ DoTransport \/ DoSleep \/ DoWake \/ Cancel \/ DoDone

Next ==
  \/ RefreshStable
  \/ NodeGroups
  \/ NodeGroupForNode
  \/ IncreaseSize
  \/ DeleteNodes
  \/ DecreaseTargetSize
  \/ Unsupported
  \/ Return

NextStartup == RefreshStartup \/ NodeGroupForNode \/ Return

NextNodes == RefreshAnyStatus \/ Nodes \/ Return

NextBuild == BuildHyperstack \/ RefreshBuilt \/ Return

Spec == Init /\ [][Next]_vars

\* the first Refresh after construction, over every answer of the cloud
SpecRefresh == Init /\ [][NextStartup]_vars

\* the first Refresh of a cluster in any status, then Nodes()
SpecNodes == Init /\ [][NextNodes]_vars

\* the calls of the retrying HTTP client
SpecRetry == Init /\ [][NextRetry]_vars

\* the same calls when the transport answers every request and the goroutine
\* of Do is scheduled
SpecRetryFair ==
  /\ SpecRetry
  /\ WF_vars(DoAttempt)
  /\ WF_vars(DoTransport)
  /\ WF_vars(DoSleep)
  /\ WF_vars(DoWake)

\* calculateDelay over configurations, attempts and jitter draws
SpecDelay == Init /\ [][NextDelay]_vars

\* WithTimeout over base contexts, methods and configurations
SpecTimeout == Init /\ [][NextTimeout]_vars

\* the operations of a gateway, with and without a client
SpecGateway == InitGateway /\ [][NextGateway]_vars

\* GetNodeLabel and Refresh over the surroundings of the local node
SpecMetadata == Init /\ [][NextMetadata]_vars

\* construction from the environment, then the first Refresh
SpecBuild == InitBuild /\ [][NextBuild]_vars

\* ================================================================= claims
\* the call the host is looking at, in the state it started in
PreCount(h) == last.pre.recs[last.pre.heap[h].nodeGroup].Count

Eligible(rec) == rec.Role = "worker" /\ rec.MaxCount > rec.MinCount

RefreshDone == last.op = "Refresh" /\ last.err = "nil"

\* the published handle at position k was built from the record rec
HandleFor(k, rec) ==
  LET g == heap[nodeGroups[k]]
  IN  g.id = rec.Id /\ recs[g.nodeGroup] = rec

\* C1: after a successful Refresh the snapshot holds a handle for a record of
\* the ListNodeGroups answer iff the record is a worker group with
\* maxCount > minCount (one handle each), and holds no other handle.
C1_PublishedIffEligible ==
  RefreshDone =>
    LET list == last.in.groups.val
    IN  /\ \A i \in 1..Len(list) :
             Eligible(list[i]) <=> \E k \in 1..Len(nodeGroups) : HandleFor(k, list[i])
        /\ \A k \in 1..Len(nodeGroups) :
             \E i \in 1..Len(list) : Eligible(list[i]) /\ HandleFor(k, list[i])
        /\ Len(nodeGroups) = Cardinality({i \in 1..Len(list) : Eligible(list[i])})

\* a successful Refresh of a list with a worker group whose maxCount equals
\* its minCount, next to an eligible group that is published
C1_Witness ==
  /\ RefreshDone
  /\ Len(nodeGroups) = 1
  /\ \E i \in 1..Len(last.in.groups.val) :
       LET rec == last.in.groups.val[i]
       IN  rec.Role = "worker" /\ rec.MaxCount = rec.MinCount

\* C2: a Refresh that returns an error leaves the snapshot (the published
\* sequence, its handles and their records) as it was before the call.
C2_FailedRefreshKeepsSnapshot ==
  (last.op = "Refresh" /\ last.err # "nil") =>
    /\ nodeGroups = last.pre.nodeGroups
    /\ heap = last.pre.heap
    /\ recs = last.pre.recs

\* a Refresh over a published snapshot that fails at the ListClusterNodes
\* call of the second group of the loop
C2_Witness ==
  /\ last.op = "Refresh"
  /\ Len(nodeGroups) > 0
  /\ last.err = "listClusterNodes"
  /\ Len(last.reqs) = 4

\* C3: after a Refresh has aborted with the reconciling error and until a
\* Refresh succeeds, no IncreaseSize or DeleteNodes call sends a request.
C3_NoScalingWhileReconciling ==
  (last.op \in {"IncreaseSize", "DeleteNodes"} /\ last.pre.reconciling) =>
    last.reqs = <<>>

\* C4: after a successful Refresh every published group has
\* MinSize() <= TargetSize() <= MaxSize().
C4_CountWithinBounds ==
  RefreshDone =>
    \A k \in 1..Len(nodeGroups) :
      LET h == nodeGroups[k]
      IN  MinSizeOf(h) <= TargetSize(h) /\ TargetSize(h) <= MaxSizeOf(h)

\* C5: unless the CreateNodes call itself fails, IncreaseSize(d) on a group
\* with count c succeeds iff d > 0 and c + d <= MaxSize().
C5_IncreaseSucceedsIff ==
  (last.op = "IncreaseSize" /\ last.err # "createNodes") =>
    (last.err = "nil" <=>
       (last.in.delta > 0 /\ PreCount(last.h) + last.in.delta <= MaxSizeOf(last.h)))

\* the handle h of the state before a step, in the state after it: a
\* successful Refresh moves the handles the host keeps and drops the others
Moved(h) ==
  IF last'.op = "Refresh" /\ last'.err = "nil"
  THEN IF h \in last'.in.keep THEN PosOf(SortedSeq(last'.in.keep), h) ELSE 0
  ELSE h

C6_Step ==
  /\ (last'.op = "IncreaseSize" /\ last'.err = "nil") =>
       LET h == last'.h
           d == last'.in.delta
       IN  /\ last'.reqs = <<[call |-> "CreateNodes", clusterId |-> heap[h].clusterId,
                               count |-> d, nodeGroup |-> Name(h)]>>
           /\ recs'[heap'[h].nodeGroup].Count = Count(h) + d
  /\ \A h \in Handles :
       Moved(h) # 0 =>
         \/ recs'[heap'[Moved(h)].nodeGroup].Count = Count(h)
         \/ last'.op \in {"IncreaseSize", "DeleteNodes"} /\ last'.h = h

\* C6: a successful IncreaseSize(d) on a group with count c sends exactly one
\* CreateNodes request with the group's cluster id, count d and the group's
\* name, and leaves TargetSize() at c + d; the TargetSize() of a handle
\* changes in no step but a scale operation on that handle.
C6_IncreaseSendsDelta == [][C6_Step]_vars

\* a successful IncreaseSize(1) on a group that had count 1
C6_Witness ==
  /\ last.op = "IncreaseSize" /\ last.err = "nil"
  /\ last.in.delta = 1
  /\ TargetSize(last.h) = 2
  /\ Len(last.reqs) = 1

DeleteCall == last.op = "DeleteNodes"

NothingDeleted ==
  /\ last.reqs = <<>>
  /\ last.deleted = <<>>
  /\ recs = last.pre.recs
  /\ heap = last.pre.heap

\* C7: with a snapshot of zero groups DeleteNodes returns success for every
\* handle and input and does nothing: no request, no change of the count, no
\* Kubernetes Node deleted.
C7_EmptySnapshotSkipsDelete ==
  (DeleteCall /\ Len(last.pre.nodeGroups) = 0) =>
    (last.err = "nil" /\ NothingDeleted)

\* DeleteNodes on a handle of an earlier snapshot, the snapshot now empty,
\* with a node that has no labels and a worker node with a valid id
C7_Witness ==
  /\ DeleteCall
  /\ Len(last.pre.nodeGroups) = 0
  /\ \E i, j \in 1..Len(last.in.nodes) :
       /\ DOMAIN last.in.nodes[i].Labels = {}
       /\ last.in.nodes[j].Name = "n1"

\* the node breaks the batch: no node-id label, or a worker whose node-id
\* label is not an integer
Unusable(node) ==
  \/ nodeIdLabel \notin DOMAIN node.Labels
  \/ /\ LabelValue(node.Labels, nodeRoleLabel) = "worker"
     /\ ~Atoi(node.Labels[nodeIdLabel]).ok

\* C8: with a non-empty snapshot, a DeleteNodes input with a node that lacks
\* the node-id label, or with a worker node whose node-id label is not an
\* integer, is rejected as a whole: an error, no request, the count
\* unchanged, no Kubernetes Node deleted.
C8_BadNodeRejectsBatch ==
  (/\ DeleteCall
   /\ Len(last.pre.nodeGroups) > 0
   /\ \E i \in 1..Len(last.in.nodes) : Unusable(last.in.nodes[i])) =>
    (last.err \in {"missingLabel", "atoi"} /\ NothingDeleted)

\* a rejected batch of a valid worker node followed by a node that is no
\* worker and has no node-id label
C8_Witness ==
  /\ DeleteCall
  /\ Len(last.pre.nodeGroups) > 0
  /\ Len(last.in.nodes) = 2
  /\ last.in.nodes[1].Name = "n1"
  /\ DOMAIN last.in.nodes[2].Labels = {}
  /\ last.err = "missingLabel"

IsWorker(node) == LabelValue(node.Labels, nodeRoleLabel) = "worker"

\* the node-ids of the worker nodes of the input, in input order
WorkerIds(nodes) ==
  LET workers == SelectSeq(nodes, IsWorker)
  IN  [i \in 1..Len(workers) |-> Atoi(workers[i].Labels[nodeIdLabel]).val]

\* C9: a DeleteNodes call that reaches the cloud submits exactly the node-ids
\* of the input nodes whose role label is worker, and on success the count
\* has gone down by the number of ids submitted.
C9_SubmitsWorkerIds ==
  (DeleteCall /\ last.reqs # <<>>) =>
    /\ Len(last.reqs) = 1
    /\ last.reqs[1].call = "DeleteClusterNodes"
    /\ last.reqs[1].ids = WorkerIds(last.in.nodes)
    /\ last.err = "nil" =>
         Count(last.h) = PreCount(last.h) - Len(last.reqs[1].ids)

\* a successful DeleteNodes of a worker node and a node that is no worker
\* but has a valid node-id: one id submitted, the count down by one
C9_Witness ==
  /\ DeleteCall /\ last.err = "nil"
  /\ Len(last.in.nodes) = 2
  /\ Len(last.reqs) = 1
  /\ last.reqs[1].ids = <<100>>
  /\ Count(last.h) = PreCount(last.h) - 1

\* the node carries the node-group-id label of another group than h's
Foreign(node, h) ==
  /\ nodeGroupLabel \in DOMAIN node.Labels
  /\ Atoi(node.Labels[nodeGroupLabel]).val # last.pre.heap[h].id

\* C10: DeleteNodes with a node of another node group returns an error and
\* deletes nothing.
C10_ForeignNodeRejected ==
  (DeleteCall /\ \E i \in 1..Len(last.in.nodes) : Foreign(last.in.nodes[i], last.h)) =>
    (last.err # "nil" /\ NothingDeleted)

\* the names of the input nodes whose instance the call submitted to the
\* cloud in a request the cloud accepted
SubmittedNames ==
  IF last.reqs = <<>> \/ last.err = "deleteClusterNodes" THEN {}
  ELSE {last.in.nodes[i].Name : i \in
          {j \in 1..Len(last.in.nodes) :
             /\ IsWorker(last.in.nodes[j])
             /\ Atoi(last.in.nodes[j].Labels[nodeIdLabel]).val
                  \in Range(last.reqs[1].ids)}}

\* C11: whenever DeleteNodes returns, with success or with an error, the
\* nodes whose instance was submitted to the cloud for deletion are the nodes
\* whose Kubernetes Node object was deleted.
C11_DeletionConsistent ==
  DeleteCall => SubmittedNames = Range(last.deleted)

\* C12: after a successful Refresh, whatever IncreaseSize and DeleteNodes
\* calls came before, TargetSize() of every published group is the count the
\* ListNodeGroups answer of that Refresh reports for the group.
C12_RefreshOverwritesCount ==
  RefreshDone =>
    \A k \in 1..Len(nodeGroups) :
      \E i \in 1..Len(last.in.groups.val) :
        /\ last.in.groups.val[i].Id = heap[nodeGroups[k]].id
        /\ TargetSize(nodeGroups[k]) = last.in.groups.val[i].Count

\* a successful Refresh that publishes two groups with different counts, one
\* of which had been driven below zero locally by DeleteNodes
C12_Witness ==
  /\ RefreshDone
  /\ Len(nodeGroups) = 2
  /\ TargetSize(nodeGroups[1]) # TargetSize(nodeGroups[2])
  /\ \E h \in 1..Len(last.pre.heap) :
       /\ PreCount(h) < 0
       /\ \E k \in 1..Len(nodeGroups) : heap[nodeGroups[k]].id = last.pre.heap[h].id

\* the operations of a handle that never change anything
PassiveOps ==
  {"DecreaseTargetSize", "AtomicIncreaseSize", "ForceDeleteNodes", "Create",
   "Delete", "TemplateNodeInfo", "GetOptions"}

C13_Step ==
  /\ nodeGroups' # nodeGroups => (last'.op = "Refresh" /\ last'.err = "nil")
  /\ last'.op \in PassiveOps \cup {"IncreaseSize", "DeleteNodes"} =>
       (nodeGroups' = nodeGroups /\ heap' = heap)
  /\ \A h \in Handles :
       Moved(h) # 0 =>
         /\ heap'[Moved(h)].maxSize = MaxSizeOf(h)
         /\ heap'[Moved(h)].minSize = MinSizeOf(h)
  /\ (last'.op = "Refresh" /\ last'.err = "nil") =>
       \A k \in 1..Len(nodeGroups') :
         \E i \in 1..Len(last'.in.groups.val) :
           LET rec == last'.in.groups.val[i]
               g   == heap'[nodeGroups'[k]]
           IN  g.id = rec.Id /\ g.maxSize = rec.MaxCount /\ g.minSize = rec.MinCount

\* C13: the snapshot is empty at construction and only a successful Refresh
\* changes it: no scale, no-op or unsupported operation changes the published
\* sequence, and MaxSize() and MinSize() of a handle stay the maxCount and
\* minCount of the record the handle was built from.
C13_OnlyRefreshChangesSnapshot == nodeGroups = <<>> /\ [][C13_Step]_vars

\* a DecreaseTargetSize on a published handle of a snapshot of two groups,
\* the handle's count at its maximum
C13_Witness ==
  /\ last.op = "DecreaseTargetSize"
  /\ Len(nodeGroups) = 2
  /\ last.h \in Range(nodeGroups)
  /\ Count(last.h) = MaxSizeOf(last.h)
  /\ MaxSizeOf(last.h) > MinSizeOf(last.h)

IsSet(env, name) == name \in DOMAIN env /\ env[name] # ""

\* C19: with HYPERSTACK_API_KEY unset or empty the construction returns an
\* error and BuildHyperstack returns null, leaving no Manager; with the key
\* set it succeeds with an empty snapshot and a gateway that uses
\* HYPERSTACK_API_SERVER when it is set and the default server otherwise.
C19_BuildNeedsApiKey ==
  last.op = "BuildHyperstack" =>
    LET env == last.in.env
    IN  /\ NewHyperstackClient(env).err <=> ~IsSet(env, "HYPERSTACK_API_KEY")
        /\ newManager(env).err <=> ~IsSet(env, "HYPERSTACK_API_KEY")
        /\ ~IsSet(env, "HYPERSTACK_API_KEY") =>
             (last.err # "nil" /\ last.ret = "null" /\ client = NoManager)
        /\ IsSet(env, "HYPERSTACK_API_KEY") =>
             /\ last.err = "nil" /\ last.ret = "provider"
             /\ client # NoManager
             /\ nodeGroups = <<>>
             /\ client.ApiServer =
                  (IF IsSet(env, "HYPERSTACK_API_SERVER")
                   THEN env["HYPERSTACK_API_SERVER"]
                   ELSE "https://infrahub-api.nexgencloud.com/v1")

\* a successful construction with the key set and no server set: the gateway
\* uses the default server
C19_Witness ==
  /\ last.op = "BuildHyperstack"
  /\ last.err = "nil"
  /\ "HYPERSTACK_API_SERVER" \notin DOMAIN last.in.env
  /\ client.ApiServer = DefaultApiServer

\* the eligible records of a list, in order
EligibleRecords(list) == SelectSeq(list, Eligible)

C14_Step ==
  /\ last'.op = "NodeGroups" => (last'.ret = nodeGroups /\ nodeGroups' = nodeGroups)
  /\ last'.op = "Refresh" =>
       \/ nodeGroups' = nodeGroups
       \/ /\ last'.err = "nil"
          /\ LET el == EligibleRecords(last'.in.groups.val)
             IN  /\ Len(nodeGroups') = Len(el)
                 /\ \A k \in 1..Len(el) : heap'[nodeGroups'[k]].id = el[k].Id
  /\ last'.op \notin {"Refresh", "BuildHyperstack"} => nodeGroups' = nodeGroups

IsIntegerText(s) ==
  LET body == IF s # <<>> /\ s[1] \in {"+", "-"} THEN Tail(s) ELSE s
  IN  body # <<>> /\ \A i \in 1..Len(body) : IsDigit(body[i])

\* the integer a decimal text denotes
IntegerOf(s) ==
  IF s[1] = "-" THEN 0 - DigitsValue(Tail(s))
  ELSE IF s[1] = "+" THEN DigitsValue(Tail(s))
  ELSE DigitsValue(s)

\* C15: NodeGroupForNode returns (no group, no error) for a node without the
\* node-group-id label, an error for a label that is no integer, the group
\* of the snapshot whose id the label names, and (no group, no error) when
\* the label names no group of the snapshot.
C15_NodeGroupForNode ==
  last.op = "NodeGroupForNode" =>
    LET labels == last.in.node.Labels
        named  == {nodeGroups[k] : k \in
                     {j \in 1..Len(nodeGroups) :
                        heap[nodeGroups[j]].id = IntegerOf(labels[nodeGroupLabel])}}
    IN  IF nodeGroupLabel \notin DOMAIN labels
        THEN last.err = "nil" /\ last.ret = NilGroup
        ELSE IF ~IsIntegerText(labels[nodeGroupLabel]) THEN last.err # "nil"
        ELSE IF named # {} THEN last.err = "nil" /\ last.ret \in named
        ELSE last.err = "nil" /\ last.ret = NilGroup

\* NodeGroupForNode finds the second group of a snapshot of two groups
C15_Witness ==
  /\ last.op = "NodeGroupForNode"
  /\ Len(nodeGroups) = 2
  /\ last.err = "nil"
  /\ last.ret = nodeGroups[2]
  /\ last.in.node.Name = "n2"

\* C16: the Id() of every group a Refresh publishes is the decimal string of
\* the id of the record the group was built from, and NodeGroupForNode on a
\* node whose node-group-id label is the Id() of a published group returns
\* that group.
C16_IdRoundTrip ==
  /\ RefreshDone =>
       \A k \in 1..Len(nodeGroups) :
         \E i \in 1..Len(last.in.groups.val) :
           /\ HandleFor(k, last.in.groups.val[i])
           /\ Atoi(Id(nodeGroups[k])) = [ok |-> TRUE, val |-> last.in.groups.val[i].Id]
           /\ Id(nodeGroups[k])[1] \notin {"+", "0"}
  /\ last.op = "NodeGroupForNode" =>
       \A k \in 1..Len(nodeGroups) :
         (/\ nodeGroupLabel \in DOMAIN last.in.node.Labels
          /\ last.in.node.Labels[nodeGroupLabel] = Id(nodeGroups[k])) =>
           (last.err = "nil" /\ last.ret = nodeGroups[k])

\* NodeGroupForNode with the label "2" returns the only published group, the
\* one built from the record with id 2: the record with id 1 was not in the
\* list or was not eligible
C16_Witness ==
  /\ last.op = "NodeGroupForNode"
  /\ Len(nodeGroups) = 1
  /\ last.in.node.Name = "n2"
  /\ Id(nodeGroups[1]) = <<"2">>
  /\ last.ret = nodeGroups[1]

\* the instance state the claim names for a cluster status
StateOfStatus(status) ==
  IF status = "ACTIVE" THEN InstanceRunning
  ELSE IF status \in {"CREATING", "RECONCILING", "WAITING"} THEN InstanceCreating
  ELSE IF status = "DELETED" THEN InstanceDeleting
  ELSE InstanceUnknown

\* C17: Nodes() returns one instance per node of the handle, in order, whose
\* Id is the decimal string of the node's id and whose state comes from the
\* cluster status captured at Refresh: ACTIVE is running; CREATING,
\* RECONCILING and WAITING are creating; DELETED is deleting; any other
\* status is unknown.
C17_NodesCarryClusterStatus ==
  last.op = "Nodes" =>
    LET n == heap[last.h].nodes
    IN  /\ Len(last.ret) = Len(n)
        /\ \A k \in 1..Len(n) :
             /\ Atoi(last.ret[k].Id) = [ok |-> TRUE, val |-> n[k]]
             /\ last.ret[k].Id[1] \notin {"+", "0"}
             /\ last.ret[k].State = StateOfStatus(heap[last.h].status)

\* Nodes() on a handle built while the cluster was WAITING: two instances,
\* both creating
C17_Witness ==
  /\ last.op = "Nodes"
  /\ heap[last.h].status = "WAITING"
  /\ Len(last.ret) = 2
  /\ last.ret[1].State = InstanceCreating
  /\ last.ret[2].Id = <<"2", "0", "0">>

\* the n-th answer of the transport is a response with a retryable status
RetryableAnswer(n) ==
  /\ do.results[n].kind = "resp"
  /\ do.results[n].StatusCode \in do.retryConfig.RetryableErrors

\* C20: a Do call whose transport answers k retryable responses
\* (0 <= k <= MaxRetries) and then a response with a status that is not
\* retryable invokes the transport exactly k + 1 times and returns that last
\* response with a nil error; while the context is live it does not stop
\* at a retryable response before attempt MaxRetries + 1.
C20_RetriesUntilNonRetryable ==
  do.pc = "returned" =>
    LET n == Len(do.results)
    IN  /\ (/\ n > 0
            /\ n - 1 <= do.retryConfig.MaxRetries
            /\ \A j \in 1..(n - 1) : RetryableAnswer(j)
            /\ do.results[n].kind = "resp"
            /\ ~RetryableAnswer(n)) =>
             (do.resp = do.results[n] /\ do.resp.n = n /\ do.err = Nil)
        /\ (/\ ~do.cancelled
            /\ do.retryConfig.MaxRetries >= 0
            /\ \A j \in 1..n : RetryableAnswer(j)) =>
             n = do.retryConfig.MaxRetries + 1

\* Do returns the 200 of its second attempt after a 503, and nothing else
C20_Witness ==
  /\ do.pc = "returned"
  /\ Len(do.results) = 2
  /\ do.results[1] = Response(503, 1)
  /\ do.resp = Response(200, 2)
  /\ do.err = Nil
  /\ do.retryConfig.MaxRetries = 3

\* C21: when each of the MaxRetries + 1 attempts of a Do call is answered by
\* a response with a retryable status, Do has invoked the transport exactly
\* MaxRetries + 1 times and returns the last of these responses with a nil
\* error.
C21_ExhaustedOnRetryableStatus ==
  do.pc = "returned" =>
    LET n == Len(do.results)
        m == do.retryConfig.MaxRetries
    IN  (/\ m >= 0
         /\ n >= m + 1
         /\ \A j \in 1..(m + 1) : RetryableAnswer(j)) =>
          /\ n = m + 1
          /\ do.resp = do.results[n]
          /\ do.resp.kind = "resp"
          /\ do.err = Nil

\* four 503 in a row with MaxRetries = 3: the fourth is returned
C21_Witness ==
  /\ do.pc = "returned"
  /\ do.retryConfig.MaxRetries = 3
  /\ Len(do.results) = 4
  /\ \A j \in 1..4 : do.results[j] = Response(503, j)
  /\ do.resp = Response(503, 4)
  /\ do.err = Nil

\* the attempts of the call are used up: MaxRetries + 1 answers, none of
\* them a response Do returns at once
Exhausted ==
  /\ do.pc = "returned"
  /\ do.retryConfig.MaxRetries >= 0
  /\ Len(do.results) = do.retryConfig.MaxRetries + 1
  /\ \A j \in 1..Len(do.results) :
       do.results[j].kind = "err" \/ RetryableAnswer(j)

\* the attempts that were answered by a response
ResponseAttempts == {j \in 1..Len(do.results) : do.results[j].kind = "resp"}

\* C22: after the MaxRetries + 1 attempts of a Do call are used up, Do
\* returns the last response received during the call if an attempt
\* produced one, and an error carrying the last transport error (the error
\* itself or one wrapping it) only if no attempt produced a response.
C22_LastResponseAfterExhaustion ==
  Exhausted =>
    IF ResponseAttempts # {}
    THEN LET j == CHOOSE i \in ResponseAttempts : \A h \in ResponseAttempts : h <= i
         IN  do.resp = do.results[j] /\ do.err = Nil
    ELSE /\ do.resp = Nil
         /\ do.err \in {do.results[Len(do.results)],
                         [kind |-> "maxRetries",
                          cause |-> do.results[Len(do.results)]]}

\* C23: when the context of the request is cancelled during a backoff sleep,
\* Do does not wait for the rest of the delay: no time of the sleep passes
\* once the context is done.
C23_CancelInterruptsBackoff ==
  [][(do.pc = "sleep" /\ do.cancelled /\ do'.pc = "sleep")
       => do'.remaining = do.remaining]_vars

\* C24: Do does not invoke the transport once the context of the request is
\* done: at the head of every iteration with an attempt left, a done context
\* makes Do return a nil response and the context's error, and the transport
\* is entered only from an iteration that found the context live.
C24_Step ==
  /\ (do.pc = "loop" /\ do.cancelled /\ do.attempt <= do.retryConfig.MaxRetries) =>
       /\ do'.pc = "returned"
       /\ do'.resp = Nil
       /\ do'.err = CtxErr
       /\ do'.results = do.results
  /\ (do.pc # "idle" /\ do.pc # "transport" /\ do'.pc = "transport") =>
       (do.pc = "loop" /\ ~do.cancelled)
  /\ (do.pc # "idle" /\ do'.pc # "idle" /\ do'.results # do.results) =>
       do.pc = "transport"

C24_NoAttemptAfterCancellation == [][C24_Step]_vars

\* cancelled during the sleep after the first attempt: Do returns the
\* context's error and the transport was invoked once
C24_Witness ==
  /\ do.pc = "returned"
  /\ do.err = CtxErr
  /\ do.resp = Nil
  /\ Len(do.results) = 1
  /\ Len(do.slept) = 1
  /\ do.retryConfig.MaxRetries = 3

\* C25: a Do call returns, after at most MaxRetries + 1 invocations of the
\* transport (none when MaxRetries < 0); it sleeps only after an attempt that
\* is not the last one, once per such attempt, so a call whose context stays
\* live has slept one time less than it invoked the transport.
C25_Bounded ==
  do.pc # "idle" =>
    LET n == Len(do.results)
        m == do.retryConfig.MaxRetries
    IN  /\ n <= (IF m >= 0 THEN m + 1 ELSE 0)
        /\ Len(do.slept) <= n
        /\ \A i \in 1..Len(do.slept) : do.slept[i] = i - 1 /\ do.slept[i] < m
        /\ do.pc = "sleep" => (Len(do.slept) = n /\ n <= m)
        /\ do.pc = "returned" =>
             \/ Len(do.slept) = n - 1
             \/ n = 0 /\ do.slept = <<>>
             \/ do.cancelled /\ do.err = CtxErr /\ Len(do.slept) = n

NominalBase ==
  LET x == last.in.rc.BaseDelay * Pow2(last.in.attempt)
  IN  IF x > last.in.rc.MaxDelay THEN last.in.rc.MaxDelay ELSE x

\* BaseDelay * 2^n is a value of time.Duration
Representable == last.in.rc.BaseDelay * Pow2(last.in.attempt) <= MaxDuration

ClaimedTimeout ==
  LET read  == IF last.in.cfg = NilTimeoutConfig THEN 3000 * Millisecond
               ELSE last.in.cfg.ReadTimeout
      write == IF last.in.cfg = NilTimeoutConfig THEN 15000 * Millisecond
               ELSE last.in.cfg.WriteTimeout
  IN  IF last.in.method = "GET" \/ last.in.method = "HEAD"
         \/ last.in.method = "OPTIONS"
      THEN read ELSE write

\* C27 (as stated): WithTimeout(base, method, cfg) returns a scope whose
\* deadline is ReadTimeout from now for GET, HEAD and OPTIONS and
\* WriteTimeout from now for every other method, with 3 s and 15 s for a nil
\* cfg.
C27_DeadlineIsTimeoutFromNow ==
  last.op = "WithTimeout" =>
    /\ last.ret.hasDeadline
    /\ last.ret.deadline = last.in.now + ClaimedTimeout

\* C27 (amended): the scope WithTimeout returns has a deadline, which is the
\* earlier of the deadline of base, if it has one, and now + T, with T the
\* ReadTimeout for GET, HEAD and OPTIONS and the WriteTimeout for every other
\* method (3 s and 15 s for a nil cfg); for a base without a deadline it is
\* now + T. The scope is cancelled when base is.
C27_DeadlineIsEarlierOfBaseAndTimeout ==
  last.op = "WithTimeout" =>
    LET base == last.in.ctx
        d    == last.in.now + ClaimedTimeout
    IN  /\ last.ret.hasDeadline
        /\ last.ret.deadline =
             (IF base.hasDeadline /\ base.deadline < d THEN base.deadline ELSE d)
        /\ ~base.hasDeadline => last.ret.deadline = d
        /\ last.ret.cancelled = base.cancelled

\* DELETE and HEAD on the background context with a nil configuration at
\* 7 s: the deadlines are 22 s and 10 s
C27_Witness ==
  /\ last.op = "WithTimeout"
  /\ last.in.ctx = Background
  /\ last.in.cfg = NilTimeoutConfig
  /\ last.in.now = 7 * Second
  /\ \/ last.in.method = "DELETE" /\ last.ret.deadline = 22 * Second
     \/ last.in.method = "HEAD" /\ last.ret.deadline = 10 * Second

\* C28: every request to the cloud that Refresh, IncreaseSize and DeleteNodes
\* issue is made under a context that carries a deadline (the one the timeout
\* helper derives from the method), so that no single request blocks the
\* operation without bound.
C28_RequestsCarryDeadline ==
  (last.op \in {"Refresh", "IncreaseSize", "DeleteNodes"} /\ last.reqs # <<>>) =>
    /\ last.ctx # NoContext
    /\ last.ctx.hasDeadline

\* C29: a client built with a nil retry configuration has MaxRetries = 3,
\* BaseDelay = 100 ms, MaxDelay = 5 s and the retryable codes
\* {429, 500, 502, 503, 504}; isRetryableError is true exactly for the codes
\* of the client's configuration, so with the defaults it is false for 400,
\* 401, 403 and 404; a client built with a configuration keeps it.
C29_RetryDefaults ==
  do.pc # "idle" =>
    LET rc == do.retryConfig
    IN  /\ do.given = NilConfig =>
             /\ rc.MaxRetries = 3
             /\ rc.BaseDelay = 100 * Millisecond
             /\ rc.MaxDelay = 5000 * Millisecond
             /\ rc.RetryableErrors = {429, 500, 502, 503, 504}
             /\ \A c \in {429, 500, 502, 503, 504} : isRetryableError(rc, c)
             /\ \A c \in {200, 400, 401, 403, 404} : ~isRetryableError(rc, c)
        /\ do.given # NilConfig => rc = do.given
        /\ \A c \in 100..599 : isRetryableError(rc, c) <=> c \in rc.RetryableErrors

\* a Do call of a client built with nil: 429 is retried, the 400 that follows
\* is returned
C29_Witness ==
  /\ do.pc = "returned"
  /\ do.given = NilConfig
  /\ do.results = <<Response(429, 1), Response(400, 2)>>
  /\ do.resp = Response(400, 2)
  /\ do.retryConfig.MaxRetries = 3

\* C30: on a gateway whose client reference is unset, each of the six
\* operations (GetCluster, ListNodeGroups, ListClusterNodes, CreateNodes,
\* DeleteClusterNode, DeleteClusterNodes) returns the not-initialized error
\* and a nil result, and issues no request.
C30_NilClientNotInitialized ==
  (last # Idle /\ client = NilClient) =>
    /\ last.op \in {"GetCluster", "ListNodeGroups", "ListClusterNodes",
                    "CreateNodes", "DeleteClusterNode", "DeleteClusterNodes"}
    /\ last.err = "notInitialized"
    /\ last.ret = NilResult
    /\ last.reqs = <<>>

\* DeleteClusterNodes on a gateway without a client, whatever the cloud
\* would have answered
C30_Witness ==
  /\ client = NilClient
  /\ last.op = "DeleteClusterNodes"
  /\ last.in.answer = "JSON200"
  /\ last.err = "notInitialized"
  /\ last.reqs = <<>>

\* C31: a failure of the metadata endpoint (of the GET, of the read of the
\* body or of the JSON decoding) makes GetNodeLabel and Refresh return an
\* error value, with the snapshot as it was; it does not end the process.
C31_MetadataFailureReturnsError ==
  (/\ last # Idle
   /\ last.op \in {"GetNodeLabel", "Refresh"}
   /\ "env" \in DOMAIN last.in
   /\ last.in.env.config
   /\ last.in.env.clientset
   /\ last.in.env.metadata # "ok") =>
     /\ last.err \notin {"nil", "panic"}
     /\ nodeGroups = last.pre.nodeGroups

\* C32: an IncreaseSize that fails leaves the handle as it was: when the
\* target exceeds the maximum it returns the "too large" error without a
\* CreateNodes request, when the CreateNodes request fails it returns that
\* error, and in both cases the count, and so TargetSize(), is unchanged.
C32_FailedIncreaseChangesNothing ==
  last.op = "IncreaseSize" =>
    LET h   == last.h
        c   == PreCount(h)
        d   == last.in.delta
        max == last.pre.heap[h].maxSize
        unchanged == /\ recs = last.pre.recs
                     /\ heap = last.pre.heap
                     /\ nodeGroups = last.pre.nodeGroups
                     /\ TargetSize(h) = c
    IN  /\ c + d > max =>
             (last.err = "tooLarge" /\ last.reqs = <<>> /\ unchanged)
        /\ (c + d <= max /\ last.in.cloud.err) =>
             /\ last.err = "createNodes"
             /\ Len(last.reqs) = 1
             /\ last.reqs[1].call = "CreateNodes"
             /\ unchanged
        /\ last.err # "nil" => unchanged

\* IncreaseSize(1) on a group with count 1 and maximum 2 whose CreateNodes
\* request fails: the count is still 1
C32_Witness ==
  /\ last.op = "IncreaseSize"
  /\ last.err = "createNodes"
  /\ last.in.delta = 1
  /\ PreCount(last.h) = 1
  /\ TargetSize(last.h) = 1
  /\ Len(last.reqs) = 1

\* C33: DeleteNodes calls the cloud before Kubernetes: a Kubernetes Node is
\* deleted only in a call whose DeleteClusterNodes request was sent and
\* accepted, and when that request fails DeleteNodes returns the error, the
\* count is not lowered and no Kubernetes Node is deleted.
C33_CloudBeforeKubernetes ==
  DeleteCall =>
    /\ last.deleted # <<>> =>
         /\ Len(last.reqs) = 1
         /\ last.reqs[1].call = "DeleteClusterNodes"
         /\ ~last.in.cloud.err
    /\ (last.reqs # <<>> /\ last.in.cloud.err) =>
         /\ last.err = "deleteClusterNodes"
         /\ last.deleted = <<>>
         /\ recs = last.pre.recs
         /\ Count(last.h) = PreCount(last.h)

\* DeleteNodes of the worker node n1 on a group with count 1, the
\* DeleteClusterNodes request for id 100 failing
C33_Witness ==
  /\ DeleteCall
  /\ last.err = "deleteClusterNodes"
  /\ last.reqs[1].ids = <<100>>
  /\ last.deleted = <<>>
  /\ PreCount(last.h) = 1
  /\ Count(last.h) = 1

\* the handles of the published snapshot
Published == Range(nodeGroups)

C34_Step ==
  /\ (last'.op = "Refresh" /\ last'.err = "nil") =>
       \A h \in last'.in.keep :
         LET m == Moved(h)
         IN  /\ heap'[m] = [heap[h] EXCEPT !.nodeGroup = heap'[m].nodeGroup]
             /\ recs'[heap'[m].nodeGroup] = recs[heap[h].nodeGroup]
             /\ m \notin Range(nodeGroups')
  /\ (last'.op \in {"IncreaseSize", "DeleteNodes"} /\ last'.h \notin Published) =>
       /\ nodeGroups' = nodeGroups
       /\ \A k \in 1..Len(nodeGroups) :
            recs'[heap'[nodeGroups'[k]].nodeGroup].Count = Count(nodeGroups[k])

\* C34: a handle the host got before a later successful Refresh keeps the
\* record it captured: across that Refresh its bounds, its count, its nodes
\* and its id stay as they were and it is not part of the new snapshot, and
\* an IncreaseSize or DeleteNodes on such a stale handle leaves the
\* TargetSize of every handle of the published snapshot unchanged.
C34_StaleHandleKeepsRecord == [][C34_Step]_vars

\* a successful IncreaseSize on a stale handle whose group has a handle with
\* another count in the published snapshot
C34_Witness ==
  /\ last.op = "IncreaseSize"
  /\ last.err = "nil"
  /\ last.h \notin Published
  /\ \E k \in 1..Len(nodeGroups) :
       /\ heap[nodeGroups[k]].id = heap[last.h].id
       /\ Count(nodeGroups[k]) # Count(last.h)
       /\ Count(nodeGroups[k]) = last.pre.recs[last.pre.heap[nodeGroups[k]].nodeGroup].Count

\* C35: the handles one Refresh publishes have a record each: in a snapshot
\* of two or more groups an IncreaseSize or DeleteNodes on one published
\* group changes the TargetSize of no other published group and leaves the
\* Id of every other group as it was.
C35_PublishedHandlesShareNoRecord ==
  (/\ last.op \in {"IncreaseSize", "DeleteNodes"}
   /\ last.h \in Published
   /\ Len(nodeGroups) >= 2) =>
     \A g \in Published \ {last.h} :
       /\ heap[g].nodeGroup # heap[last.h].nodeGroup
       /\ TargetSize(g) = PreCount(g)
       /\ Id(g) = Itoa(last.pre.recs[last.pre.heap[g].nodeGroup].Id)
       /\ Id(g) # Id(last.h)

\* a successful IncreaseSize(1) on one of two published groups that had the
\* same count: the counts now differ
C35_Witness ==
  /\ last.op = "IncreaseSize"
  /\ last.err = "nil"
  /\ last.in.delta = 1
  /\ Len(nodeGroups) = 2
  /\ last.h \in Published
  /\ \E g \in Published \ {last.h} :
       /\ PreCount(g) = PreCount(last.h)
       /\ TargetSize(g) = PreCount(g)
       /\ TargetSize(last.h) = PreCount(g) + 1

\* C36: a handle published with MinSize() <= count <= MaxSize() keeps
\* 0 <= TargetSize() <= MaxSize() through every sequence of IncreaseSize,
\* DeleteNodes and DecreaseTargetSize calls on it.
C36_TargetSizeWithinZeroAndMax ==
  \A h \in Handles :
    /\ 0 <= TargetSize(h)
    /\ TargetSize(h) <= MaxSizeOf(h)

\* the requests of a Refresh for cluster cid that got as far as n eligible
\* groups: ListNodeGroups, GetCluster, then n times ListClusterNodes
RefreshRequests(cid, n) ==
  <<[call |-> "ListNodeGroups", clusterId |-> cid],
    [call |-> "GetCluster", clusterId |-> cid]>>
    \o [k \in 1..n |-> [call |-> "ListClusterNodes", clusterId |-> cid]]

WorkerNames(nodes) ==
  LET workers == SelectSeq(nodes, IsWorker)
  IN  [i \in 1..Len(workers) |-> workers[i].Name]

\* C38: DeleteNodeObject deletes the named Nodes one at a time in list order
\* and stops at the first failure: the names before the failing one are
\* deleted, the failing one and the later ones are not, and DeleteNodes
\* returns the error with the count already lowered; without a failure all
\* the names are deleted.
C38_DeleteStopsAtFirstFailure ==
  (DeleteCall /\ last.reqs # <<>> /\ ~last.in.cloud.err) =>
    LET names  == WorkerNames(last.in.nodes)
        failAt == last.in.failAt
    IN  /\ Count(last.h) = PreCount(last.h) - Len(names)
        /\ IF failAt <= Len(names)
           THEN /\ last.err = "deleteNodeObject"
                /\ Len(last.deleted) = (IF failAt = 0 THEN 0 ELSE failAt - 1)
                /\ \A i \in 1..Len(last.deleted) : last.deleted[i] = names[i]
                /\ \A i \in 1..Len(names) :
                     (failAt = 0 \/ i >= failAt) => names[i] \notin Range(last.deleted)
           ELSE /\ last.err = "nil"
                /\ last.deleted = names

\* two worker nodes, the Delete of the second fails: n1 is deleted, n2 is
\* not, the error is returned and the count is down by two
C38_Witness ==
  /\ DeleteCall
  /\ last.err = "deleteNodeObject"
  /\ last.in.failAt = 2
  /\ Len(WorkerNames(last.in.nodes)) = 2
  /\ Len(last.deleted) = 1
  /\ last.deleted[1] = last.in.nodes[1].Name
  /\ Count(last.h) = PreCount(last.h) - 2

\* the invocations of the transport whose response was given up for a retry:
\* the ones a backoff followed
Discarded ==
  {i \in 1..Len(do.results) : i <= Len(do.slept) /\ do.results[i].kind = "resp"}

\* C39: in every Do call each response given up for a retry has had its body
\* closed exactly once by the time the backoff sleep begins, the client
\* closes no other body, and the response Do returns has never been closed.
C39_DiscardedClosedOnceReturnedOpen ==
  (do # DoIdle) =>
    /\ \A i \in Discarded : \E k \in 1..Len(do.closed) : do.closed[k] = i
    /\ \A k \in 1..Len(do.closed) : do.closed[k] \in Discarded
    /\ \A j, k \in 1..Len(do.closed) : do.closed[j] = do.closed[k] => j = k
    /\ (do.pc = "returned" /\ do.resp # Nil) =>
         /\ do.resp = do.results[do.resp.n]
         /\ \A k \in 1..Len(do.closed) : do.closed[k] # do.resp.n

\* a retryable response was closed for a retry, and the retryable response of
\* the last attempt is returned with its body open
C39_Witness ==
  /\ do # DoIdle
  /\ do.pc = "returned"
  /\ Len(do.results) = 2
  /\ do.results[1].kind = "resp"
  /\ do.closed = <<1>>
  /\ do.resp = do.results[2]
  /\ isRetryableError(do.retryConfig, do.resp.StatusCode)

====
